---- MODULE Spec2Model ----
(***************************************************************************)
(* Four-way intersection simulator (corrected client script): four bounded *)
(* FIFO lane queues, a probabilistic spawner, a round-robin light          *)
(* controller and the staggered departure / removal timers.                *)
(*                                                                         *)
(* Cars are identified by their dataset.id (the value of globalId when     *)
(* they were made).  A DOM element is represented by the per-car fields    *)
(* order (style.order), parentNode and the 'pass' class.  The "Time: ..s"  *)
(* part of the footer text is not modelled.  The count elements, the       *)
(* footer and the light bulbs are taken to exist in the page.              *)
(***************************************************************************)
EXTENDS Integers, Sequences, FiniteSets, TLC

\* ---------------------------------------------------------------- config
lanes == <<"north", "east", "south", "west">>
maxPerLane == 5
cycleTime == 5000
staggerBetweenCars == 360
passAnimationDuration == 2200
removeBuffer == 90
seedTarget == 5
initialSpawns == 3

\* ---------------------------------------------------------------- bounds
\* cars ever made (globalId never exceeds MaxId)
MaxId == 6
\* cycle ticks taken
MaxCycles == 5

LaneSet == {lanes[i] : i \in 1..Len(lanes)}
NoParent == "null"

VARIABLES
  pc,               \* position of the script: load, init, seeded, running, aborted
  laneContainerEls, \* lanes whose #lane-<dir> element exists
  laneQueueEls,     \* lanes whose .queue element exists
  laneQueues,       \* lane -> sequence of cars (ids)
  globalId,
  currentIndex,     \* 0-based index into lanes
  order,            \* car -> style.order
  parentNode,       \* car -> lane whose queue element holds it, or NoParent
  passed,           \* cars carrying the 'pass' class
  countEls,         \* lane -> displayed count
  infoEl,           \* footer text: green lane name and queued total
  bulbs,            \* lane -> which bulbs carry the 'on' class
  timeouts,         \* pending setTimeout callbacks of releaseLane, each due at 'at'
  now,              \* time of the running callback, counted from the latest cycle tick
  spawner,          \* the trySpawn interval is registered
  cycleTimer,       \* none, timeout (the 300 ms start) or interval
  spawnsDone,       \* initial trySpawn calls made (loop counter of line 236)
  reported,         \* console.error was called
  thrown,           \* a callback raised an exception
  spawnDue,         \* due time of the next trySpawn firing, on the clock of 'now'
  ticks,            \* history: the lane handed to releaseLane by each cycle tick
  last,             \* history: the callback that ran last
  enqueuedAt        \* history: queued car -> cycle ticks taken when it was enqueued

vars == <<pc, laneContainerEls, laneQueueEls, laneQueues, globalId, currentIndex,
          order, parentNode, passed, countEls, infoEl, bulbs, timeouts, now,
          spawner, cycleTimer, spawnsDone, reported, thrown, spawnDue, ticks, last,
          enqueuedAt>>

\* The simulation state the helper functions read and write, as one record.
St == [laneQueues |-> laneQueues, globalId |-> globalId, currentIndex |-> currentIndex,
       order |-> order, parentNode |-> parentNode, passed |-> passed,
       countEls |-> countEls, infoEl |-> infoEl, bulbs |-> bulbs,
       timeouts |-> timeouts, now |-> now, thrown |-> thrown]

\* getComputedStyle(qEl).flexDirection contains 'reverse' for these lanes (the
\* stylesheet decides it; one layout with both cases is taken)
flexReversed == {"north", "west"}

\* the cars held by the lane queues
Queued(qs) == UNION {{qs[l][k] : k \in 1..Len(qs[l])} : l \in LaneSet}

Install(s) ==
  /\ laneQueues' = s.laneQueues
  /\ globalId' = s.globalId
  /\ currentIndex' = s.currentIndex
  /\ order' = s.order
  /\ parentNode' = s.parentNode
  /\ passed' = s.passed
  /\ countEls' = s.countEls
  /\ infoEl' = s.infoEl
  /\ bulbs' = s.bulbs
  /\ timeouts' = s.timeouts
  /\ now' = s.now
  /\ thrown' = s.thrown
  /\ enqueuedAt' = [c \in Queued(s.laneQueues) |->
                      IF c \in DOMAIN enqueuedAt THEN enqueuedAt[c] ELSE Len(ticks)]

\* ---------------------------------------------------------------- helpers
RECURSIVE SumLen(_, _)
SumLen(qs, i) == IF i = 0 THEN 0 ELSE Len(qs[lanes[i]]) + SumLen(qs, i - 1)

\* lanes.reduce((s, l) => s + laneQueues[l].length, 0)
Total(qs) == SumLen(qs, Len(lanes))

\* 'c' + ((id % 5) + 1)
colorCls(id) == (id % 5) + 1

\* makeCar: a detached element with style.order '0'
makeCar(s, id) ==
  [s EXCEPT !.order = (id :> 0) @@ @,
            !.parentNode = (id :> NoParent) @@ @]

\* variant: every lane's display is written from the north queue
updateCounts_north(s) ==
  [s EXCEPT !.countEls = [l \in LaneSet |-> Len(s.laneQueues["north"])]]

updateCounts(s) ==
  [s EXCEPT !.countEls = [l \in LaneSet |-> Len(s.laneQueues[l])]]

updateInfoText(s) ==
  [s EXCEPT !.infoEl = [green |-> lanes[s.currentIndex + 1],
                        queued |-> Total(s.laneQueues)]]

updateLights(s) ==
  [s EXCEPT !.bulbs = [l \in LaneSet |->
                         IF l = lanes[s.currentIndex + 1]
                         THEN [red |-> FALSE, green |-> TRUE]
                         ELSE [red |-> TRUE, green |-> FALSE]]]

\* position (0-based) of car in q, or -1
indexOf(q, car) ==
  IF \E i \in 1..Len(q) : q[i] = car
  THEN (CHOOSE i \in 1..Len(q) : q[i] = car /\ \A j \in 1..(i - 1) : q[j] # car) - 1
  ELSE -1

\* const orderIndex = isReversed ? i : i
orderIndex(isReversed, i) == IF isReversed THEN i ELSE i

\* variant: a reversed lane gets its ranks counted from the tail
refreshQueueVisuals_fromTail(s, laneName) ==
  LET qArr == s.laneQueues[laneName]
      inQ(c) == indexOf(qArr, c) # -1
      rank(c) == IF laneName \in flexReversed
                 THEN Len(qArr) - 1 - indexOf(qArr, c)
                 ELSE indexOf(qArr, c)
  IN [s EXCEPT
        !.parentNode = [c \in DOMAIN @ |-> IF inQ(c) THEN laneName ELSE @[c]],
        !.order = [c \in DOMAIN @ |-> IF inQ(c) THEN rank(c) ELSE @[c]]]

\* refreshQueueVisuals: every queued car is (re)attached to the lane's queue
\* element and gets style.order = its array index
refreshQueueVisuals(s, laneName) ==
  LET qArr == s.laneQueues[laneName]
      inQ(c) == indexOf(qArr, c) # -1
  IN [s EXCEPT
        !.parentNode = [c \in DOMAIN @ |-> IF inQ(c) THEN laneName ELSE @[c]],
        !.order = [c \in DOMAIN @ |->
                     IF inQ(c) THEN orderIndex(laneName \in flexReversed, indexOf(qArr, c)) ELSE @[c]]]

\* variant: the lane-full test lets one car too many in
spawnInto_offByOne(s, l, hit) ==
  IF Len(s.laneQueues[l]) > maxPerLane THEN s
  ELSE IF ~hit THEN s
  ELSE LET id == s.globalId + 1
           s1 == makeCar([s EXCEPT !.globalId = id], id)
           s2 == [s1 EXCEPT !.laneQueues[l] = Append(@, id),
                            !.parentNode[id] = l]
       IN updateInfoText(updateCounts(refreshQueueVisuals(s2, l)))

\* variant: the id is taken before the lane-full test
spawnInto_idFirst(s, l, hit) ==
  IF Len(s.laneQueues[l]) >= maxPerLane THEN [s EXCEPT !.globalId = @ + 1]
  ELSE IF ~hit THEN s
  ELSE LET id == s.globalId + 1
           s1 == makeCar([s EXCEPT !.globalId = id], id)
           s2 == [s1 EXCEPT !.laneQueues[l] = Append(@, id),
                            !.parentNode[id] = l]
       IN updateInfoText(updateCounts(refreshQueueVisuals(s2, l)))

\* body of the forEach callback of trySpawn for lane l; hit: Math.random() < 0.4
spawnInto(s, l, hit) ==
  IF Len(s.laneQueues[l]) >= maxPerLane THEN s
  ELSE IF ~hit THEN s
  ELSE LET id == s.globalId + 1
           s1 == makeCar([s EXCEPT !.globalId = id], id)
           s2 == [s1 EXCEPT !.laneQueues[l] = Append(@, id),
                            !.parentNode[id] = l]
       IN updateInfoText(updateCounts(refreshQueueVisuals(s2, l)))

RECURSIVE trySpawnFrom(_, _, _)
trySpawnFrom(s, hits, i) ==
  IF i > Len(lanes) THEN s
  ELSE trySpawnFrom(spawnInto(s, lanes[i], lanes[i] \in hits), hits, i + 1)

\* trySpawn with the lanes in hits drawing Math.random() < 0.4
trySpawn(s, hits) == trySpawnFrom(s, hits, 1)

\* cars a trySpawn with these draws makes
Made(s, hits) == Cardinality({l \in hits : Len(s.laneQueues[l]) < maxPerLane})

\* variant: one car short of the target
seedCount_short(total) == IF seedTarget - total > 1 THEN seedTarget - total - 1 ELSE 0

\* Math.max(0, 5 - total)
seedCount(total) == IF seedTarget - total > 0 THEN seedTarget - total ELSE 0

\* lanes.filter((l) => laneQueues[l].length < maxPerLane)
candidates(s) == {l \in LaneSet : Len(s.laneQueues[l]) < maxPerLane}

\* variant: makeCar(globalId++), the car takes the id before the increment
seedInto_postIncrement(s, chosen) ==
  LET id == s.globalId
      s1 == makeCar([s EXCEPT !.globalId = id + 1], id)
      s2 == [s1 EXCEPT !.laneQueues[chosen] = Append(@, id),
                       !.parentNode[id] = chosen]
  IN refreshQueueVisuals(s2, chosen)

\* one iteration of the while loop of ensureInitialFive with lane chosen drawn
seedInto(s, chosen) ==
  LET id == s.globalId + 1
      s1 == makeCar([s EXCEPT !.globalId = id], id)
      s2 == [s1 EXCEPT !.laneQueues[chosen] = Append(@, id),
                       !.parentNode[id] = chosen]
  IN refreshQueueVisuals(s2, chosen)

\* the states the while loop can end in, over all random draws
RECURSIVE seedLoop(_, _)
seedLoop(s, toAdd) ==
  IF toAdd <= 0 \/ candidates(s) = {} THEN {s}
  ELSE UNION {seedLoop(seedInto(s, chosen), toAdd - 1) : chosen \in candidates(s)}

ensureInitialFive(s) ==
  {updateInfoText(updateCounts(t)) : t \in seedLoop(s, seedCount(Total(s.laneQueues)))}

\* q.slice().sort((a, b) => order(a) - order(b)): stable insertion by style.order
RECURSIVE insertByOrder(_, _, _)
insertByOrder(sorted, car, ord) ==
  IF sorted = <<>> THEN <<car>>
  ELSE IF ord[Head(sorted)] <= ord[car]
       THEN <<Head(sorted)>> \o insertByOrder(Tail(sorted), car, ord)
       ELSE <<car>> \o sorted

RECURSIVE sortByOrder(_, _)
sortByOrder(q, ord) ==
  IF q = <<>> THEN <<>>
  ELSE insertByOrder(sortByOrder(SubSeq(q, 1, Len(q) - 1), ord), q[Len(q)], ord)

\* const carToGo = sorted[0]
carToGo(s, l) == sortByOrder(s.laneQueues[l], s.order)[1]

\* q.splice(idx, 1) with a 0-based idx
splice(q, idx) == SubSeq(q, 1, idx) \o SubSeq(q, idx + 2, Len(q))

\* variant: the remaining cars are not re-ranked after the removal
releaseIteration_noRefresh(s, l, i) ==
  LET q == s.laneQueues[l]
      car == carToGo(s, l)
      idx == indexOf(q, car)
      s1 == IF idx # -1 THEN [s EXCEPT !.laneQueues[l] = splice(q, idx)] ELSE s
      s2 == updateInfoText(updateCounts(s1))
  IN [s2 EXCEPT !.timeouts = @ \cup {[kind |-> "depart", car |-> car,
                                       at |-> s.now + i * staggerBetweenCars]}]

\* variant: the cars are staggered by the animation length
releaseIteration_slowStagger(s, l, i) ==
  LET q == s.laneQueues[l]
      car == carToGo(s, l)
      idx == indexOf(q, car)
      s1 == IF idx # -1 THEN [s EXCEPT !.laneQueues[l] = splice(q, idx)] ELSE s
      s2 == updateInfoText(updateCounts(refreshQueueVisuals(s1, l)))
  IN [s2 EXCEPT !.timeouts = @ \cup {[kind |-> "depart", car |-> car,
                                       at |-> s.now + i * passAnimationDuration]}]

\* variant: the car handed over is not taken out of the queue
releaseIteration_noSplice(s, l, i) ==
  LET car == carToGo(s, l)
      s2 == updateInfoText(updateCounts(refreshQueueVisuals(s, l)))
  IN [s2 EXCEPT !.timeouts = @ \cup {[kind |-> "depart", car |-> car,
                                       at |-> s.now + i * staggerBetweenCars]}]

\* body of the for loop of releaseLane, iteration i
releaseIteration(s, l, i) ==
  LET q == s.laneQueues[l]
      car == carToGo(s, l)
      idx == indexOf(q, car)
      s1 == IF idx # -1 THEN [s EXCEPT !.laneQueues[l] = splice(q, idx)] ELSE s
      s2 == updateInfoText(updateCounts(refreshQueueVisuals(s1, l)))
  IN [s2 EXCEPT !.timeouts = @ \cup {[kind |-> "depart", car |-> car,
                                       at |-> s.now + i * staggerBetweenCars]}]

RECURSIVE releaseLoop(_, _, _, _)
releaseLoop(s, l, i, releaseCount) ==
  IF i >= releaseCount THEN s
  ELSE releaseLoop(releaseIteration(s, l, i), l, i + 1, releaseCount)

\* variant: a green releases the front car only
releaseLane_headOnly(s, l) ==
  IF Len(s.laneQueues[l]) = 0 THEN s
  ELSE updateInfoText(updateCounts(refreshQueueVisuals(
         releaseLoop(s, l, 0, 1), l)))

\* variant: the loop stops one car short (i < releaseCount - 1)
releaseLane_skipLast(s, l) ==
  IF Len(s.laneQueues[l]) = 0 THEN s
  ELSE updateInfoText(updateCounts(refreshQueueVisuals(
         releaseLoop(s, l, 0, Len(s.laneQueues[l]) - 1), l)))

releaseLane(s, l) ==
  IF Len(s.laneQueues[l]) = 0 THEN s
  ELSE updateInfoText(updateCounts(refreshQueueVisuals(
         releaseLoop(s, l, 0, Len(s.laneQueues[l])), l)))

\* variant: the index wraps one lane early
cycle_wrapEarly(s) ==
  LET activeLane == lanes[s.currentIndex + 1]
      s1 == releaseLane(updateLights(s), activeLane)
  IN updateInfoText([s1 EXCEPT !.currentIndex = (@ + 1) % (Len(lanes) - 1)])

\* variant: the index is advanced before the release
cycle_advanceFirst(s) ==
  LET s0 == [s EXCEPT !.currentIndex = (@ + 1) % Len(lanes)]
  IN updateInfoText(releaseLane(updateLights(s0), lanes[s0.currentIndex + 1]))

cycle(s) ==
  LET activeLane == lanes[s.currentIndex + 1]
      s1 == releaseLane(updateLights(s), activeLane)
  IN updateInfoText([s1 EXCEPT !.currentIndex = (@ + 1) % Len(lanes)])

\* variant: the 'pass' class is set but the removal is not scheduled
departStart_noRemoval(s, car) ==
  LET s0 == [s EXCEPT !.timeouts = @ \ {t \in @ : t.kind = "depart" /\ t.car = car}]
  IN IF s.parentNode[car] = NoParent THEN s0
     ELSE [s0 EXCEPT !.passed = @ \cup {car}]

\* variant: the removal is scheduled without the 90 ms buffer
departStart_noBuffer(s, car) ==
  LET s0 == [s EXCEPT !.timeouts = @ \ {t \in @ : t.kind = "depart" /\ t.car = car}]
  IN IF s.parentNode[car] = NoParent THEN s0
     ELSE [s0 EXCEPT !.passed = @ \cup {car},
                     !.timeouts = @ \cup {[kind |-> "remove", car |-> car,
                                           at |-> s.now + passAnimationDuration]}]

\* the outer setTimeout callback of releaseLane for car
departStart(s, car) ==
  LET s0 == [s EXCEPT !.timeouts = @ \ {t \in @ : t.kind = "depart" /\ t.car = car}]
  IN IF s.parentNode[car] = NoParent THEN s0
     ELSE [s0 EXCEPT !.passed = @ \cup {car},
                     !.timeouts = @ \cup {[kind |-> "remove", car |-> car,
                                           at |-> s.now + passAnimationDuration
                                                    + removeBuffer]}]

\* variant: removeChild is called without the parentNode test
removeCar_unguarded(s, car) ==
  LET s0 == [s EXCEPT !.timeouts = @ \ {t \in @ : t.kind = "remove" /\ t.car = car}]
  IN IF s.parentNode[car] # NoParent THEN [s0 EXCEPT !.parentNode[car] = NoParent]
     ELSE [s0 EXCEPT !.thrown = TRUE]

\* the inner setTimeout callback: if (car.parentNode) car.parentNode.removeChild(car)
removeCar(s, car) ==
  LET s0 == [s EXCEPT !.timeouts = @ \ {t \in @ : t.kind = "remove" /\ t.car = car}]
  IN IF s.parentNode[car] # NoParent THEN [s0 EXCEPT !.parentNode[car] = NoParent]
     ELSE s0

\* ---------------------------------------------------------------- history
\* style.order of the queued cars of lane l, front first
Ranks(s, l) == [k \in 1..Len(s.laneQueues[l]) |-> s.order[s.laneQueues[l][k]]]

\* the states after iterations i, i+1, ... of the release loop
RECURSIVE ReleaseStates(_, _, _, _)
ReleaseStates(s, l, i, releaseCount) ==
  IF i >= releaseCount THEN <<>>
  ELSE <<releaseIteration(s, l, i)>>
         \o ReleaseStates(releaseIteration(s, l, i), l, i + 1, releaseCount)

\* the cars whose departure-start timer the callback taking s to s2 has set,
\* in the order of their due times
Handed(s, s2) ==
  LET D == {t \in s2.timeouts \ s.timeouts : t.kind = "depart"}
  IN [k \in 1..Cardinality(D) |->
        (CHOOSE t \in D : Cardinality({u \in D : u.at < t.at}) = k - 1).car]

\* the ranks left in the lane after every iteration of releaseLane(s, l)
StepRanks(s, l) ==
  LET n == Len(s.laneQueues[l])
      after == ReleaseStates(s, l, 0, n)
  IN [k \in 1..n |-> Ranks(after[k], l)]

NoOp == [op |-> "none", lane |-> "", car |-> 0, total |-> 0, rejected |-> {},
         made |-> {}, before |-> <<>>, went |-> <<>>, ranks |-> <<>>]

\* ---------------------------------------------------------------- actions
Init ==
  /\ pc = "load"
  /\ laneContainerEls \in SUBSET LaneSet
  /\ laneQueueEls \in SUBSET laneContainerEls
  /\ laneQueues = [l \in LaneSet |-> <<>>]
  /\ globalId = 0
  /\ currentIndex = 0
  /\ order = <<>>
  /\ parentNode = <<>>
  /\ passed = {}
  /\ countEls = [l \in LaneSet |-> 0]
  /\ infoEl = [green |-> "", queued |-> 0]
  /\ bulbs = [l \in LaneSet |-> [red |-> FALSE, green |-> FALSE]]
  /\ timeouts = {}
  /\ now = 0
  /\ spawner = FALSE
  /\ cycleTimer = "none"
  /\ spawnsDone = 0
  /\ reported = FALSE
  /\ thrown = FALSE
  /\ spawnDue = 0
  /\ ticks = <<>>
  /\ last = NoOp
  /\ enqueuedAt = <<>>

\* variant: && in place of ||
containersMissing_all(els) == \A l \in LaneSet : l \notin els

\* !laneContainerEls.north || !laneContainerEls.east || ...
containersMissing(els) == \E l \in LaneSet : l \notin els

\* the guard on the lane containers and the creation of missing .queue elements
Guard ==
  /\ pc = "load"
  /\ IF containersMissing(laneContainerEls)
     THEN /\ reported' = TRUE
          /\ pc' = "aborted"
          /\ UNCHANGED laneQueueEls
     ELSE /\ laneQueueEls' = LaneSet
          /\ pc' = "init"
          /\ UNCHANGED reported
  /\ last' = [NoOp EXCEPT !.op = "guard"]
  /\ UNCHANGED <<laneContainerEls, laneQueues, globalId, currentIndex, order,
                 parentNode, passed, countEls, infoEl, bulbs, timeouts, now,
                 spawner, cycleTimer, spawnsDone, thrown, spawnDue, ticks,
                 enqueuedAt>>

\* one trySpawn call; hits are the lanes whose Math.random() draw would be below
\* 0.4 (a full lane returns before drawing)
SpawnCall(hits) ==
  /\ globalId + Made(St, hits) <= MaxId
  /\ Install(trySpawn(St, hits))
  /\ last' = [NoOp EXCEPT !.op = "trySpawn", !.rejected = LaneSet \ candidates(St),
                          !.made = (globalId + 1)..trySpawn(St, hits).globalId]

\* for (let i = 0; i < 3; i++) trySpawn()
InitialSpawn ==
  /\ pc = "init"
  /\ spawnsDone < initialSpawns
  /\ \E hits \in SUBSET LaneSet : SpawnCall(hits)
  /\ spawnsDone' = spawnsDone + 1
  /\ UNCHANGED <<pc, laneContainerEls, laneQueueEls, spawnDue, spawner,
                 cycleTimer, reported, ticks>>

\* ensureInitialFive()
Seed ==
  /\ pc = "init"
  /\ spawnsDone = initialSpawns
  /\ \E t \in ensureInitialFive(St) : Install(t)
  /\ pc' = "seeded"
  /\ last' = [NoOp EXCEPT !.op = "seed", !.total = Total(laneQueues)]
  /\ UNCHANGED <<laneContainerEls, laneQueueEls, spawnDue, spawner, cycleTimer,
                 spawnsDone, reported, ticks>>

\* updateLights(); setInterval(trySpawn, ..); setTimeout(.., 300)
Arm ==
  /\ pc = "seeded"
  /\ Install(updateLights(St))
  /\ spawner' = TRUE
  /\ cycleTimer' = "timeout"
  /\ pc' = "running"
  /\ last' = [NoOp EXCEPT !.op = "arm"]
  /\ UNCHANGED <<laneContainerEls, laneQueueEls, spawnDue, spawnsDone, reported,
                 ticks>>

\* a firing of the spawner interval
SpawnTick ==
  /\ spawner
  /\ \E hits \in SUBSET LaneSet : SpawnCall(hits)
  /\ UNCHANGED <<pc, laneContainerEls, laneQueueEls, spawnDue, spawner,
                 cycleTimer, spawnsDone, reported, ticks>>

\* Timers fire in the order of their due times.  The cycle timer and the
\* timeouts of releaseLane are counted on one clock that restarts at every
\* cycle tick; the spawner's phase against that clock is left open.
Due(t) == \A u \in timeouts : t.at <= u.at

\* the state a cycle tick starts from: the clock restarts, pending timeouts
\* are counted from the new tick
AtTick(s) ==
  [s EXCEPT !.now = 0,
            !.timeouts = {[u EXCEPT !.at = @ - cycleTime] : u \in @}]

\* one call of cycle() from a timer callback
CycleCall(s) ==
  LET activeLane == lanes[currentIndex + 1]
  IN /\ Len(ticks) < MaxCycles
     /\ Install(cycle(s))
     /\ ticks' = Append(ticks, activeLane)
     /\ last' = [NoOp EXCEPT !.op = "cycle", !.lane = activeLane,
                             !.before = laneQueues,
                             !.went = Handed(s, cycle(s)),
                             !.ranks = StepRanks(updateLights(s), activeLane)]

\* the 300 ms timeout: cycle(); setInterval(cycle, cycleTime)
FirstCycle ==
  /\ cycleTimer = "timeout"
  /\ CycleCall(St)
  /\ cycleTimer' = "interval"
  /\ UNCHANGED <<pc, laneContainerEls, laneQueueEls, spawnDue, spawner,
                 spawnsDone, reported>>

\* a firing of the cycle interval
CycleTick ==
  /\ cycleTimer = "interval"
  /\ \A u \in timeouts : cycleTime <= u.at
  /\ CycleCall(AtTick(St))
  /\ UNCHANGED <<pc, laneContainerEls, laneQueueEls, spawnDue, spawner,
                 cycleTimer, spawnsDone, reported>>

\* a departure-start timer fires
DepartTimer ==
  \E t \in timeouts :
    /\ t.kind = "depart"
    /\ Due(t) /\ t.at < cycleTime
    /\ Install(departStart([St EXCEPT !.now = t.at], t.car))
    /\ last' = [NoOp EXCEPT !.op = "depart", !.car = t.car]
    /\ UNCHANGED <<pc, laneContainerEls, laneQueueEls, spawnDue, spawner,
                   cycleTimer, spawnsDone, reported, ticks>>

\* a removal timer fires
RemoveTimer ==
  \E t \in timeouts :
    /\ t.kind = "remove"
    /\ Due(t) /\ t.at < cycleTime
    /\ Install(removeCar([St EXCEPT !.now = t.at], t.car))
    /\ last' = [NoOp EXCEPT !.op = "remove", !.car = t.car]
    /\ UNCHANGED <<pc, laneContainerEls, laneQueueEls, spawnDue, spawner,
                   cycleTimer, spawnsDone, reported, ticks>>

Next ==
  \/ Guard
  \/ InitialSpawn
  \/ Seed
  \/ Arm
  \/ SpawnTick
  \/ FirstCycle
  \/ CycleTick
  \/ DepartTimer
  \/ RemoveTimer

Spec == Init /\ [][Next]_vars

\* A scheduling duplicate: the removal callback that has just run for a car
\* runs once more.
DuplicateRemove ==
  /\ last.op \in {"remove", "removeAgain"}
  /\ Install(removeCar(St, last.car))
  /\ last' = [NoOp EXCEPT !.op = "removeAgain", !.car = last.car]
  /\ UNCHANGED <<pc, laneContainerEls, laneQueueEls, spawnDue, spawner, cycleTimer,
                 spawnsDone, reported, ticks>>

\* A scheduling duplicate: the departure-start callback of a car runs again
\* after the car's removal.
DuplicateDepart ==
  /\ last.op \in {"remove", "removeAgain"}
  /\ Install(departStart(St, last.car))
  /\ last' = [NoOp EXCEPT !.op = "departAgain", !.car = last.car]
  /\ UNCHANGED <<pc, laneContainerEls, laneQueueEls, spawnDue, spawner, cycleTimer,
                 spawnsDone, reported, ticks>>

NextDup == Next \/ DuplicateRemove \/ DuplicateDepart

\* the simulation with duplicated timer callbacks
SpecDup == Init /\ [][NextDup]_vars

\* ------------------------------------------------ public/client.js (served)
\* The script the server serves under /public: cars have no style.order and
\* hang directly under the lane container, cycle() defers the release by
\* releaseDelay, and releaseLane clears the queue in one step.
staggerBetweenCars_client == 160
removeBuffer_client == 100
releaseDelay == 80

makeCar_client(s, id) == [s EXCEPT !.parentNode = (id :> NoParent) @@ @]

spawnInto_client(s, l, hit) ==
  IF Len(s.laneQueues[l]) >= maxPerLane THEN s
  ELSE IF ~hit THEN s
  ELSE LET id == s.globalId + 1
           s1 == makeCar_client([s EXCEPT !.globalId = id], id)
           s2 == [s1 EXCEPT !.laneQueues[l] = Append(@, id),
                            !.parentNode[id] = l]
       IN updateInfoText(updateCounts(s2))

RECURSIVE trySpawnFrom_client(_, _, _)
trySpawnFrom_client(s, hits, i) ==
  IF i > Len(lanes) THEN s
  ELSE trySpawnFrom_client(spawnInto_client(s, lanes[i], lanes[i] \in hits), hits, i + 1)

trySpawn_client(s, hits) == trySpawnFrom_client(s, hits, 1)

seedInto_client(s, chosen) ==
  LET id == s.globalId + 1
      s1 == makeCar_client([s EXCEPT !.globalId = id], id)
  IN [s1 EXCEPT !.laneQueues[chosen] = Append(@, id),
                !.parentNode[id] = chosen]

RECURSIVE seedLoop_client(_, _)
seedLoop_client(s, toAdd) ==
  IF toAdd <= 0 \/ candidates(s) = {} THEN {s}
  ELSE UNION {seedLoop_client(seedInto_client(s, chosen), toAdd - 1) :
                chosen \in candidates(s)}

ensureInitialFive_client(s) ==
  {updateInfoText(updateCounts(t)) :
     t \in seedLoop_client(s, seedCount(Total(s.laneQueues)))}

\* q.forEach((car, idx) => setTimeout(.., idx * staggerBetweenCars));
\* laneQueues[l] = []
releaseLane_client(s, l) ==
  LET q == s.laneQueues[l]
  IN IF Len(q) = 0 THEN s
     ELSE updateInfoText(updateCounts(
            [s EXCEPT !.timeouts = @ \cup
                        {[kind |-> "depart", car |-> q[k],
                          at |-> s.now + (k - 1) * staggerBetweenCars_client] :
                           k \in 1..Len(q)},
                      !.laneQueues[l] = <<>>]))

\* cycle(): the release is left to a timeout
cycle_client(s) ==
  LET activeLane == lanes[s.currentIndex + 1]
      s1 == updateLights(s)
      s2 == [s1 EXCEPT !.timeouts = @ \cup {[kind |-> "release", car |-> activeLane,
                                              at |-> s.now + releaseDelay]}]
  IN updateInfoText([s2 EXCEPT !.currentIndex = (@ + 1) % Len(lanes)])

departStart_client(s, car) ==
  LET s0 == [s EXCEPT !.timeouts = @ \ {t \in @ : t.kind = "depart" /\ t.car = car}]
  IN IF s.parentNode[car] = NoParent THEN s0
     ELSE [s0 EXCEPT !.passed = @ \cup {car},
                     !.timeouts = @ \cup {[kind |-> "remove", car |-> car,
                                           at |-> s.now + passAnimationDuration
                                                    + removeBuffer_client]}]

removeCar_client(s, car) ==
  LET s0 == [s EXCEPT !.timeouts = @ \ {t \in @ : t.kind = "remove" /\ t.car = car}]
  IN IF s.parentNode[car] # NoParent THEN [s0 EXCEPT !.parentNode[car] = NoParent]
     ELSE s0

Guard_client ==
  /\ pc = "load"
  /\ IF containersMissing(laneContainerEls)
     THEN reported' = TRUE /\ pc' = "aborted"
     ELSE pc' = "init" /\ UNCHANGED reported
  /\ last' = [NoOp EXCEPT !.op = "guard"]
  /\ UNCHANGED <<laneContainerEls, laneQueueEls, laneQueues, globalId, currentIndex,
                 order, parentNode, passed, countEls, infoEl, bulbs, timeouts, now,
                 spawner, cycleTimer, spawnsDone, thrown, spawnDue, ticks,
                 enqueuedAt>>

SpawnCall_client(hits) ==
  /\ globalId + Made(St, hits) <= MaxId
  /\ Install(trySpawn_client(St, hits))
  /\ last' = [NoOp EXCEPT !.op = "trySpawn", !.rejected = LaneSet \ candidates(St),
                          !.made = (globalId + 1)..trySpawn_client(St, hits).globalId]

InitialSpawn_client ==
  /\ pc = "init"
  /\ spawnsDone < initialSpawns
  /\ \E hits \in SUBSET LaneSet : SpawnCall_client(hits)
  /\ spawnsDone' = spawnsDone + 1
  /\ UNCHANGED <<pc, laneContainerEls, laneQueueEls, spawnDue, spawner, cycleTimer, reported,
                 ticks>>

Seed_client ==
  /\ pc = "init"
  /\ spawnsDone = initialSpawns
  /\ \E t \in ensureInitialFive_client(St) : Install(t)
  /\ pc' = "seeded"
  /\ last' = [NoOp EXCEPT !.op = "seed", !.total = Total(laneQueues)]
  /\ UNCHANGED <<laneContainerEls, laneQueueEls, spawnDue, spawner, cycleTimer, spawnsDone,
                 reported, ticks>>

SpawnTick_client ==
  /\ spawner
  /\ \E hits \in SUBSET LaneSet : SpawnCall_client(hits)
  /\ UNCHANGED <<pc, laneContainerEls, laneQueueEls, spawnDue, spawner, cycleTimer,
                 spawnsDone, reported, ticks>>

CycleCall_client(s) ==
  LET activeLane == lanes[currentIndex + 1]
  IN /\ Len(ticks) < MaxCycles
     /\ Install(cycle_client(s))
     /\ ticks' = Append(ticks, activeLane)
     /\ last' = [NoOp EXCEPT !.op = "cycle", !.lane = activeLane,
                             !.before = laneQueues,
                             !.went = Handed(s, cycle_client(s))]

FirstCycle_client ==
  /\ cycleTimer = "timeout"
  /\ CycleCall_client(St)
  /\ cycleTimer' = "interval"
  /\ UNCHANGED <<pc, laneContainerEls, laneQueueEls, spawnDue, spawner, spawnsDone, reported>>

CycleTick_client ==
  /\ cycleTimer = "interval"
  /\ \A u \in timeouts : cycleTime <= u.at
  /\ CycleCall_client(AtTick(St))
  /\ UNCHANGED <<pc, laneContainerEls, laneQueueEls, spawnDue, spawner, cycleTimer,
                 spawnsDone, reported>>

\* the timeout of cycle() fires: releaseLane(activeLane)
ReleaseTimer_client ==
  \E t \in timeouts :
    /\ t.kind = "release"
    /\ Due(t) /\ t.at < cycleTime
    /\ LET s == [St EXCEPT !.now = t.at, !.timeouts = @ \ {t}]
       IN /\ Install(releaseLane_client(s, t.car))
          /\ last' = [NoOp EXCEPT !.op = "release", !.lane = t.car,
                                  !.before = laneQueues,
                                  !.went = Handed(s, releaseLane_client(s, t.car))]
    /\ UNCHANGED <<pc, laneContainerEls, laneQueueEls, spawnDue, spawner, cycleTimer,
                   spawnsDone, reported, ticks>>

DepartTimer_client ==
  \E t \in timeouts :
    /\ t.kind = "depart"
    /\ Due(t) /\ t.at < cycleTime
    /\ Install(departStart_client([St EXCEPT !.now = t.at], t.car))
    /\ last' = [NoOp EXCEPT !.op = "depart", !.car = t.car]
    /\ UNCHANGED <<pc, laneContainerEls, laneQueueEls, spawnDue, spawner, cycleTimer,
                   spawnsDone, reported, ticks>>

RemoveTimer_client ==
  \E t \in timeouts :
    /\ t.kind = "remove"
    /\ Due(t) /\ t.at < cycleTime
    /\ Install(removeCar_client([St EXCEPT !.now = t.at], t.car))
    /\ last' = [NoOp EXCEPT !.op = "remove", !.car = t.car]
    /\ UNCHANGED <<pc, laneContainerEls, laneQueueEls, spawnDue, spawner, cycleTimer,
                   spawnsDone, reported, ticks>>

NextClient ==
  \/ Guard_client
  \/ InitialSpawn_client
  \/ Seed_client
  \/ Arm
  \/ SpawnTick_client
  \/ FirstCycle_client
  \/ CycleTick_client
  \/ ReleaseTimer_client
  \/ DepartTimer_client
  \/ RemoveTimer_client

\* client.js looks up the lane containers only
InitClient == Init /\ laneQueueEls = {}

\* the simulation as public/client.js runs it
SpecClient == InitClient /\ [][NextClient]_vars

\* ------------------------------------------------ timers at their due times
\* The same script with the spawner on the clock of the cycle timer: a
\* callback runs when its timer is the earliest one due.
spawnInterval == 1200
startDelay == 300

\* variant: the first cycle is started after spawnInterval
cycleDue_late == IF cycleTimer = "timeout" THEN spawnInterval ELSE cycleTime

\* due time of the cycle timer: the start timeout, then the interval
cycleDue == IF cycleTimer = "timeout" THEN startDelay ELSE cycleTime

\* updateLights(); setInterval(trySpawn, spawnInterval); setTimeout(.., 300)
ArmTimed ==
  /\ pc = "seeded"
  /\ Install(updateLights(St))
  /\ spawner' = TRUE
  /\ spawnDue' = spawnInterval
  /\ cycleTimer' = "timeout"
  /\ pc' = "running"
  /\ last' = [NoOp EXCEPT !.op = "arm"]
  /\ UNCHANGED <<laneContainerEls, laneQueueEls, spawnsDone, reported, ticks>>

\* the spawner interval fires at spawnDue and is due again spawnInterval later
SpawnTickTimed ==
  /\ spawner
  /\ spawnDue <= cycleDue
  /\ \A u \in timeouts : spawnDue <= u.at
  /\ \E hits \in SUBSET LaneSet :
       LET s == [St EXCEPT !.now = spawnDue]
       IN /\ globalId + Made(s, hits) <= MaxId
          /\ Install(trySpawn(s, hits))
          /\ last' = [NoOp EXCEPT !.op = "trySpawn",
                                  !.rejected = LaneSet \ candidates(s),
                                  !.made = (globalId + 1)..trySpawn(s, hits).globalId]
  /\ spawnDue' = spawnDue + spawnInterval
  /\ UNCHANGED <<pc, laneContainerEls, laneQueueEls, spawner, cycleTimer,
                 spawnsDone, reported, ticks>>

\* the start timeout fires at startDelay; the clock restarts
FirstCycleTimed ==
  /\ cycleTimer = "timeout"
  /\ cycleDue <= spawnDue
  /\ CycleCall([St EXCEPT !.now = 0])
  /\ cycleTimer' = "interval"
  /\ spawnDue' = spawnDue - cycleDue
  /\ UNCHANGED <<pc, laneContainerEls, laneQueueEls, spawner, spawnsDone, reported>>

\* the cycle interval fires at cycleTime; the clock restarts
CycleTickTimed ==
  /\ cycleTimer = "interval"
  /\ cycleDue <= spawnDue
  /\ \A u \in timeouts : cycleTime <= u.at
  /\ CycleCall(AtTick(St))
  /\ spawnDue' = spawnDue - cycleDue
  /\ UNCHANGED <<pc, laneContainerEls, laneQueueEls, spawner, cycleTimer,
                 spawnsDone, reported>>

DepartTimerTimed ==
  /\ \E t \in timeouts : t.at <= spawnDue
  /\ DepartTimer

RemoveTimerTimed ==
  /\ \E t \in timeouts : t.at <= spawnDue
  /\ RemoveTimer

NextTimed ==
  \/ Guard
  \/ InitialSpawn
  \/ Seed
  \/ ArmTimed
  \/ SpawnTickTimed
  \/ FirstCycleTimed
  \/ CycleTickTimed
  \/ DepartTimerTimed
  \/ RemoveTimerTimed

\* the simulation with every timer firing at its due time
SpecTimed == Init /\ [][NextTimed]_vars

\* ---------------------------------------------------------------- properties
Increasing(q) == \A i, j \in 1..Len(q) : i < j => q[i] < q[j]

\* C1 (FIFO): the cars one releaseLane call hands over for departure, in the
\* order of their departure, are exactly the queue of the released lane at the
\* start of the call, front first, which is in strictly increasing id.
FIFO_C1 ==
  last.op = "cycle" =>
    /\ last.went = last.before[last.lane]
    /\ Increasing(last.went)

\* a release of three or more cars, after an earlier cycle tick
FIFO_C1_Witness ==
  last.op = "cycle" /\ Len(last.went) >= 3 /\ Len(ticks) >= 2

\* C2 (capacity): every lane queue holds at most maxPerLane cars, in every
\* state from the start of the script on.
Capacity_C2 == \A l \in LaneSet : Len(laneQueues[l]) <= maxPerLane

\* a lane is at capacity after a cycle tick and there is a car elsewhere
Capacity_C2_Witness ==
  /\ Len(ticks) >= 1
  /\ \E l \in LaneSet : Len(laneQueues[l]) = maxPerLane
  /\ globalId > maxPerLane

ZeroBased(n) == [k \in 1..n |-> k - 1]

\* C3 (rank invariant): between callbacks the car at queue position i of every
\* lane has style.order i, and the same holds for the released lane after
\* every iteration of the release loop.
RankInvariant_C3 ==
  /\ \A l \in LaneSet : Ranks(St, l) = ZeroBased(Len(laneQueues[l]))
  /\ last.op = "cycle" =>
       \A k \in 1..Len(last.ranks) :
         last.ranks[k] = ZeroBased(Len(last.before[last.lane]) - k)

\* a release of three or more cars: the loop re-ranked the rest at least twice
RankInvariant_C3_Witness ==
  /\ last.op = "cycle"
  /\ Len(last.ranks) >= 3
  /\ Len(last.ranks[1]) >= 2

\* C4 (round-robin): the active index is 0 at the start and equals n mod 4
\* after n cycle ticks; nothing but a cycle tick changes it.
RoundRobin_C4 == currentIndex = Len(ticks) % Len(lanes)

\* the index is back at north after four ticks
RoundRobin_C4_Witness == Len(ticks) = Len(lanes) /\ currentIndex = 0

\* C5 (seeding): from the return of ensureInitialFive up to the first cycle
\* tick the lanes hold at least 5 cars in total, and ensureInitialFive adds
\* exactly max(0, 5 - total before) cars, none to a lane that was full.
Seeding_C5 ==
  /\ pc \in {"seeded", "running"} /\ ticks = <<>> => Total(laneQueues) >= seedTarget
  /\ last.op = "seed" =>
       /\ last.total >= seedTarget => Total(laneQueues) = last.total
       /\ last.total < seedTarget => Total(laneQueues) = seedTarget
       /\ globalId = Total(laneQueues)
       /\ \A l \in LaneSet : Len(laneQueues[l]) <= maxPerLane

\* two cars before seeding, five after
Seeding_C5_Witness ==
  last.op = "seed" /\ last.total = 2 /\ Total(laneQueues) = seedTarget

\* C6 (idempotent removal): a removal callback, or a departure-start callback,
\* that runs for a car whose element is already detached changes nothing:
\* queues, counts, footer, DOM, pending timers are as after the single
\* removal, and no exception is raised.
IdempotentRemoval_C6 ==
  [][last'.op \in {"removeAgain", "departAgain"} =>
       /\ parentNode[last'.car] = NoParent
       /\ UNCHANGED <<laneQueues, globalId, currentIndex, order, parentNode, passed,
                      countEls, infoEl, bulbs, timeouts, thrown>>
       /\ ~thrown']_vars

\* the removal callback has run a second time for a detached car
IdempotentRemoval_C6_Witness ==
  /\ last.op = "removeAgain"
  /\ parentNode[last.car] = NoParent
  /\ ~thrown

\* C8 (admission rejection): a trySpawn call leaves every lane that holds
\* maxPerLane cars as it was (cars, ranks, displayed count), raises nothing,
\* and makes no car for it: every id it takes is queued in a lane that had room.
Admission_C8 ==
  [][last'.op = "trySpawn" =>
       /\ \A l \in LaneSet :
            Len(laneQueues[l]) >= maxPerLane =>
              /\ laneQueues'[l] = laneQueues[l]
              /\ \A k \in 1..Len(laneQueues[l]) :
                   order'[laneQueues[l][k]] = order[laneQueues[l][k]]
              /\ countEls'[l] = countEls[l]
       /\ thrown' = thrown
       /\ timeouts' = timeouts
       /\ globalId' - globalId = Total(laneQueues') - Total(laneQueues)
       /\ \A id \in (globalId + 1)..globalId' :
            \E l \in LaneSet :
              /\ Len(laneQueues[l]) < maxPerLane
              /\ laneQueues'[l] = Append(laneQueues[l], id)]_vars

\* a trySpawn call has met a full lane, which still shows maxPerLane
Admission_C8_Witness ==
  /\ last.op = "trySpawn"
  /\ \E l \in last.rejected :
       Len(laneQueues[l]) = maxPerLane /\ countEls[l] = maxPerLane

\* C9 (fail-fast initialization): with a lane container missing the script
\* reports the error and stops: no car is made, no lane seeded, no light
\* switched, and neither the spawn timer nor the cycle timer is started.
FailFast_C9 ==
  laneContainerEls # LaneSet =>
    /\ pc \in {"load", "aborted"}
    /\ pc = "aborted" => reported
    /\ globalId = 0
    /\ \A l \in LaneSet : laneQueues[l] = <<>> /\ countEls[l] = 0
    /\ \A l \in LaneSet : ~bulbs[l].green /\ ~bulbs[l].red
    /\ ~spawner
    /\ cycleTimer = "none"
    /\ timeouts = {}
    /\ ticks = <<>>

\* the script has aborted with exactly one container missing
FailFast_C9_Witness ==
  pc = "aborted" /\ reported /\ Cardinality(laneContainerEls) = Len(lanes) - 1

\* C10 (a tick releases the active lane): the k-th cycle tick hands lane
\* (k-1) mod 4 to releaseLane, which empties exactly that lane, and the index
\* is advanced afterwards.
CycleReleases_C10 ==
  /\ \A k \in 1..Len(ticks) : ticks[k] = lanes[((k - 1) % Len(lanes)) + 1]
  /\ last.op = "cycle" =>
       LET l == lanes[((Len(ticks) - 1) % Len(lanes)) + 1]
       IN /\ last.went = last.before[l]
          /\ laneQueues[l] = <<>>
          /\ \A m \in LaneSet \ {l} : laneQueues[m] = last.before[m]
          /\ currentIndex = Len(ticks) % Len(lanes)

\* the fourth tick has released a non-empty west lane
CycleReleases_C10_Witness ==
  /\ Len(ticks) = Len(lanes)
  /\ last.op = "cycle"
  /\ last.went # <<>>
  /\ last.lane = "west"

\* C7 (release is synchronous with the cycle tick): right after a cycle tick
\* callback the lane that was active is empty while the timers of its cars
\* are pending, and a spawn tick that runs next queues its car alone, at rank
\* 0, outside the release in progress.
SyncRelease_C7 ==
  [][/\ last'.op = "cycle" =>
          /\ laneQueues'[last'.lane] = <<>>
          /\ \A k \in 1..Len(laneQueues[last'.lane]) :
               \E u \in timeouts' : u.kind = "depart" /\ u.car = laneQueues[last'.lane][k]
     /\ last.op = "cycle" /\ last'.op = "trySpawn"
          /\ laneQueues'[last.lane] # laneQueues[last.lane] =>
          /\ laneQueues'[last.lane] = <<globalId' - Total(laneQueues')
                                          + Total(laneQueues) + 1>>
          /\ order'[laneQueues'[last.lane][1]] = 0
          /\ \A u \in timeouts' : u.car # laneQueues'[last.lane][1]]_vars

\* a cycle tick has emptied a lane of two or more cars whose timers are pending
SyncRelease_C7_Witness ==
  /\ last.op = "cycle"
  /\ Len(last.before[last.lane]) >= 2
  /\ laneQueues[last.lane] = <<>>
  /\ \A k \in 1..Len(last.before[last.lane]) :
       \E u \in timeouts : u.kind = "depart" /\ u.car = last.before[last.lane][k]

\* C7 as stated, for the served script: the lane active at a cycle tick is
\* empty when the cycle tick callback has completed.
SyncRelease_C7_Claim ==
  last.op = "cycle" => laneQueues[last.lane] = <<>>

GreenLanes == {l \in LaneSet : bulbs[l].green /\ ~bulbs[l].red}

\* C11 (lights agree with the controller): once the timers run, exactly one
\* lane shows green, the others show red, and the green lane is the lane at
\* currentIndex, which is also the lane the footer names as green.
LightsAgree_C11 ==
  pc = "running" =>
    /\ GreenLanes = {lanes[currentIndex + 1]}
    /\ \A l \in LaneSet \ GreenLanes : bulbs[l].red /\ ~bulbs[l].green
    /\ infoEl.green = lanes[currentIndex + 1]

\* what the code keeps: once the timers run exactly one lane shows green, the
\* others red; before the first tick it is north, afterwards the lane
\* released by the latest tick, while index and footer name the next lane
LightsShowReleased ==
  pc = "running" =>
    /\ GreenLanes = {IF ticks = <<>> THEN lanes[1] ELSE ticks[Len(ticks)]}
    /\ \A l \in LaneSet \ GreenLanes : bulbs[l].red /\ ~bulbs[l].green
    /\ infoEl.green = lanes[currentIndex + 1]

\* C12 (departure schedule): a release at time t (the clock restarts at the
\* tick, t = 0) sets the departure-start of its i-th car, i from 0, at
\* t + i * staggerBetweenCars; a departure-start running at time d sets the
\* car's removal at d + passAnimationDuration + removeBuffer.  Pending timers
\* of one kind are due in the FIFO order of their cars, and a removal is only
\* pending for a car whose departure-start has run.
DepartureSchedule_C12 ==
  /\ last.op = "cycle" =>
        \A k \in 1..Len(last.went) :
          [kind |-> "depart", car |-> last.went[k],
           at |-> (k - 1) * staggerBetweenCars] \in timeouts
  /\ last.op = "depart" =>
        [kind |-> "remove", car |-> last.car,
         at |-> now + passAnimationDuration + removeBuffer] \in timeouts
  /\ \A t \in timeouts :
        \E i \in 0..(maxPerLane - 1) :
          t.at = i * staggerBetweenCars
                   + (IF t.kind = "remove" THEN passAnimationDuration + removeBuffer
                      ELSE 0)
  /\ \A t, u \in timeouts :
        /\ t.kind = u.kind => (t.car < u.car <=> t.at < u.at)
        /\ t.car = u.car => t = u
        /\ t.kind = "remove" => t.car \in passed
        /\ t.kind = "depart" => t.car \notin passed

\* the third car of a release starts its departure at 2 * 360 while the
\* removals of the three cars that have started are pending
DepartureSchedule_C12_Witness ==
  /\ last.op = "depart"
  /\ now = 2 * staggerBetweenCars
  /\ Cardinality({t \in timeouts : t.kind = "remove"}) = 3

\* C13 (departure is terminal): a car that has left the queues is in no lane
\* queue afterwards; a cycle tick hands over cars that were queued before it,
\* each once, and none of them is queued after it; departure-start timers are
\* set by a cycle tick only, for cars queued before it.
Terminal_C13 ==
  [][/\ \A c \in 1..globalId :
          c \notin Queued(laneQueues) => c \notin Queued(laneQueues')
     /\ last'.op = "cycle" =>
          \A k \in 1..Len(last'.went) :
            /\ last'.went[k] \in Queued(laneQueues)
            /\ last'.went[k] \notin Queued(laneQueues')
            /\ \A j \in 1..Len(last'.went) : j # k => last'.went[j] # last'.went[k]
     /\ \A t \in timeouts' \ timeouts :
          t.kind = "depart" => last'.op = "cycle" /\ t.car \in Queued(laneQueues)
    ]_vars

\* a spawn adds a car while an earlier car has been released and removed
Terminal_C13_Witness ==
  /\ last.op = "trySpawn"
  /\ last.made # {}
  /\ \E c \in 1..globalId :
        c \notin Queued(laneQueues) /\ c \in passed /\ parentNode[c] = NoParent

\* the cars a trySpawn call recorded in h has put into lane l of queues qs
PlacedIn(h, qs, l) == {v \in h.made : \E k \in 1..Len(qs[l]) : qs[l][k] = v}

\* C14 (spawn and cycle callbacks at the same instant): when the cycle callback
\* runs directly after a trySpawn callback that put a car v into the active
\* lane, v is handed over by that release, as its last car; when the trySpawn
\* callback runs directly after the cycle callback, the car v it puts into the
\* released lane is not part of that release, has no timer and is alone in
\* the queue at rank 0.  Every release hands over the whole queue, so v goes
\* at the lane's next green.  Capacity, ranks and id order hold after both.
SameInstant_C14 ==
  [][/\ last'.op = "cycle" => last'.went = laneQueues[last'.lane]
     /\ last.op = "trySpawn" /\ last'.op = "cycle" =>
          \A v \in PlacedIn(last, laneQueues, last'.lane) :
            v = last'.went[Len(last'.went)]
     /\ last.op = "cycle" /\ last'.op = "trySpawn" =>
          \A v \in PlacedIn(last', laneQueues', last.lane) :
            /\ laneQueues'[last.lane] = <<v>>
            /\ order'[v] = 0
            /\ \A k \in 1..Len(last.went) : last.went[k] # v
            /\ \A u \in timeouts' : u.car # v
     /\ last'.op \in {"trySpawn", "cycle"} =>
          \A l \in LaneSet :
            /\ Len(laneQueues'[l]) <= maxPerLane
            /\ Increasing(laneQueues'[l])
            /\ [k \in 1..Len(laneQueues'[l]) |-> order'[laneQueues'[l][k]]]
                 = ZeroBased(Len(laneQueues'[l]))
    ]_vars

\* the cycle callback ran first: no time has passed since the tick (the
\* departure-start due at 0 is still pending) and the trySpawn callback that
\* ran last has put a car into the lane just released
SameInstant_C14_Witness ==
  /\ last.op = "trySpawn"
  /\ Len(ticks) >= 1
  /\ now = 0
  /\ \E u \in timeouts : u.kind = "depart" /\ u.at = 0
  /\ PlacedIn(last, laneQueues, ticks[Len(ticks)]) # {}

\* no trySpawn callback that fed the active lane is directly followed by the
\* cycle callback (false: the order spawn, cycle occurs)
SameInstant_C14_NoSpawnFirst ==
  [][~(/\ last.op = "trySpawn" /\ last'.op = "cycle"
       /\ PlacedIn(last, laneQueues, last'.lane) # {})]_vars

\* C15 (occupancy display): once the startup sequence has completed, between
\* callbacks the count displayed for every lane is the length of its queue.
CountsInSync_C15 ==
  pc \in {"seeded", "running"} =>
    \A l \in LaneSet : countEls[l] = Len(laneQueues[l])

\* after a release that emptied its lane, another lane shows two or more cars
CountsInSync_C15_Witness ==
  /\ last.op = "cycle"
  /\ Len(last.went) >= 1
  /\ countEls[last.lane] = 0
  /\ \E l \in LaneSet : countEls[l] >= 2

\* the lane whose queue holds car c
LaneOf(c) == CHOOSE l \in LaneSet : \E k \in 1..Len(laneQueues[l]) : laneQueues[l][k] = c

\* C16 (bounded waiting): a car that is still queued has seen fewer than four
\* cycle ticks since it was enqueued, and none of them was a green of its own
\* lane: every car is released by the fourth cycle tick after its enqueue, at
\* the first green of its lane.
BoundedWait_C16 ==
  /\ DOMAIN enqueuedAt = Queued(laneQueues)
  /\ \A c \in DOMAIN enqueuedAt :
        /\ Len(ticks) - enqueuedAt[c] < Len(lanes)
        /\ \A k \in (enqueuedAt[c] + 1)..Len(ticks) : ticks[k] # LaneOf(c)

\* a car enqueued after the first tick has waited three ticks, and the lane
\* released first has been released a second time
BoundedWait_C16_Witness ==
  /\ Len(ticks) = Len(lanes) + 1
  /\ \E c \in DOMAIN enqueuedAt : enqueuedAt[c] >= 1 /\ Len(ticks) - enqueuedAt[c] = 3

\* the cars that have been handed over by a release
Released == (1..globalId) \ Queued(laneQueues)

\* C17 (removal completes before the next release): every timer of a release
\* is due before the next cycle tick, at (maxPerLane - 1) * staggerBetweenCars
\* + passAnimationDuration + removeBuffer = 3730 at the latest; a released car
\* has one pending timer while its handle is attached and none once it is
\* removed; when a cycle tick has run, the only pending timers are the
\* departure-starts it has set, and every car of an earlier release is removed.
RemovalCompletes_C17 ==
  /\ \A t \in timeouts :
        /\ t.at <= (maxPerLane - 1) * staggerBetweenCars
                     + passAnimationDuration + removeBuffer
        /\ t.at < cycleTime
        /\ t.car \in Released
  /\ \A c \in Released :
        Cardinality({t \in timeouts : t.car = c})
          = IF parentNode[c] = NoParent THEN 0 ELSE 1
  /\ last.op = "remove" => parentNode[last.car] = NoParent /\ last.car \in passed
  /\ last.op = "cycle" =>
        /\ \A t \in timeouts :
              t.kind = "depart" /\ \E k \in 1..Len(last.went) : last.went[k] = t.car
        /\ \A c \in Released :
              (\A k \in 1..Len(last.went) : last.went[k] # c)
                => parentNode[c] = NoParent /\ c \in passed

\* a cycle tick releases cars after the cars of an earlier release of five
\* have all been removed
RemovalCompletes_C17_Witness ==
  /\ last.op = "cycle"
  /\ Len(last.went) >= 1
  /\ Cardinality({c \in Released : parentNode[c] = NoParent /\ c \in passed}) >= maxPerLane

\* C18 (identifier accounting): the ids in use are exactly 1..globalId, one
\* car element per id; every id belongs to a car that was admitted to a queue
\* (it is queued, or waits for its departure-start, or has started it); no id
\* is queued twice; every lane queue is in strictly increasing id, front
\* first; the cars a trySpawn call made are the highest ids and are queued.
IdAccounting_C18 ==
  /\ DOMAIN parentNode = 1..globalId
  /\ DOMAIN order = 1..globalId
  /\ \A c \in 1..globalId :
        \/ c \in Queued(laneQueues)
        \/ \E t \in timeouts : t.kind = "depart" /\ t.car = c
        \/ c \in passed
  /\ Cardinality(Queued(laneQueues)) = Total(laneQueues)
  /\ \A l \in LaneSet : Increasing(laneQueues[l])
  /\ last.op = "trySpawn" =>
        /\ last.made \subseteq Queued(laneQueues)
        /\ \A v \in last.made : (v + 1)..globalId \subseteq last.made
  /\ last.op = "seed" => globalId = Total(laneQueues)

\* after a release, a spawn has put a new car behind an older one
IdAccounting_C18_Witness ==
  /\ last.op = "trySpawn"
  /\ Released # {}
  /\ \E l \in LaneSet :
        Len(laneQueues[l]) >= 2 /\ laneQueues[l][Len(laneQueues[l])] \in last.made

\* C19 (handle ownership): the handle of every queued car is attached to the
\* queue element of its lane; an attached handle belongs to a car queued in
\* that lane or to a released car with a pending timer, and the pending
\* timers are those of the cars of the latest release, attached to the lane
\* of that release.
HandleOwnership_C19 ==
  /\ \A l \in LaneSet : \A k \in 1..Len(laneQueues[l]) :
        parentNode[laneQueues[l][k]] = l
  /\ \A c \in DOMAIN parentNode :
        parentNode[c] # NoParent =>
          \/ \E k \in 1..Len(laneQueues[parentNode[c]]) :
                laneQueues[parentNode[c]][k] = c
          \/ c \in Released /\ \E t \in timeouts : t.car = c
  /\ \A t \in timeouts : parentNode[t.car] = ticks[Len(ticks)]
  /\ last.op = "cycle" =>
        \A k \in 1..Len(last.went) : parentNode[last.went[k]] = last.lane

\* a lane's element holds a newly queued car next to a released car whose
\* removal is pending
HandleOwnership_C19_Witness ==
  \E t \in timeouts :
    /\ t.kind = "remove"
    /\ parentNode[t.car] # NoParent
    /\ laneQueues[parentNode[t.car]] # <<>>

\* time from the script's start to the latest cycle tick
TickTime == startDelay + (Len(ticks) - 1) * cycleTime

\* C20 (the two timers never coincide): the spawner is due at multiples of
\* spawnInterval after the script's start and the cycle timer at startDelay
\* plus multiples of cycleTime; the two are never due at the same instant;
\* the first cycle tick runs before the first spawner tick, so the first
\* release is north's and hands over cars of the startup only.
TimersApart_C20 ==
  /\ spawner =>
        /\ spawnDue # cycleDue
        /\ ticks = <<>> => spawnDue = spawnInterval
        /\ ticks # <<>> => spawnDue > 0 /\ (TickTime + spawnDue) % spawnInterval = 0
  /\ Len(ticks) = 1 /\ last.op = "cycle" =>
        /\ last.lane = "north"
        /\ spawnDue = spawnInterval - startDelay
        /\ last.went = last.before["north"]
        /\ DOMAIN enqueuedAt = Queued(laneQueues)
        /\ \A c \in 1..globalId : c \in Queued(laneQueues) \/ c \in Queued(last.before)

\* the closest approach: after the fifth cycle tick the spawner is due 100 ms
\* before the cycle timer
TimersApart_C20_Witness ==
  /\ Len(ticks) = 5
  /\ cycleDue - spawnDue = 100

====
